---- MODULE Spec2Model ----
(***************************************************************************)
(* Currency conversion service: the request pipeline of src/app.ts         *)
(* (two express-rate-limit limiters, then the routes), the LRU rate cache  *)
(* of lib/cache and ConversionService.getExchangeRates / convertCurrency.  *)
(*                                                                         *)
(* Time is counted in minutes since the process started (at 00:00 of the   *)
(* day bootDay).  Every `await` on I/O (the upstream fetch, the database)  *)
(* is a point where other requests and the clock may interleave.           *)
(***************************************************************************)
EXTENDS Integers, Sequences, FiniteSets, TLC

VARIABLES
    now,        \* minutes elapsed since the process started
    bootDay,    \* day of week (0 = Sunday .. 6 = Saturday) at minute 0
    store,      \* store[L][key]: the MemoryStore client of limiter L
    cache,      \* the single LRU cache slot "exchange_rates"
    fetches,    \* number of upstream fetches issued so far
    req,        \* req[r]: the request being served in slot r
    hist        \* history (observation only, never read by the program)

vars == <<now, bootDay, store, cache, fetches, req, hist>>

----------------------------------------------------------------------------
(* Program constants *)

MinutesPerDay == 24 * 60
windowMs == 24 * 60
WeekdayMax == 100
WeekendMax == 200
EXCHANGE_RATES_CACHE_TTL == 5

SUPPORTED_FIAT_CURRENCIES == <<"USD", "EUR">>
SUPPORTED_CRYPTOCURRENCIES == <<"BTC", "ETH">>
SUPPORTED_CURRENCIES == SUPPORTED_FIAT_CURRENCIES \o SUPPORTED_CRYPTOCURRENCIES

includes(list, x) == \E i \in 1..Len(list) : list[i] = x

----------------------------------------------------------------------------
(* Bounds of the model *)

MaxHalfDays == 3        \* quota runs: the clock stops after this many half days
MaxOver == 1            \* quota runs: requests sent beyond a limiter's cap
MaxMinutes == 8         \* service runs: the clock stops after this many minutes
Step == 2               \* service runs: minutes the clock advances at a time
ConcMargin == 2         \* concurrent runs: the second request joins this close to the cap
MaxFetches == 3         \* upstream fetches issued
MaxHits == 2            \* pipeline runs: requests counted per key and limiter

----------------------------------------------------------------------------
(* Clock *)

\* new Date().getDay()
getDay(t) == (bootDay + (t \div MinutesPerDay)) % 7

dayIndex(t) == t \div MinutesPerDay

isWeekend(day) == day = 0 \/ day = 6

----------------------------------------------------------------------------
(* lib/auth: extractUserId.  A header value is modelled as the list of its *)
(* parts between single spaces: "Bearer u1" is <<"Bearer", "u1">>,         *)
(* "Bearer " is <<"Bearer", "">>, "Bearer" is <<"Bearer">>.                *)

NoHeader == <<>>
Null == "<null>"

\* faulty variant: the scheme is not looked at
extractUserIdAnyScheme(authHeader) ==
    IF authHeader = NoHeader \/ Len(authHeader) < 2
    THEN Null
    ELSE authHeader[2]

\* lib/auth.ts lines 20-32: startsWith('Bearer '), then split(' ')[1]
extractUserId(authHeader) ==
    IF authHeader = NoHeader \/ Len(authHeader) < 2 \/ authHeader[1] # "Bearer"
    THEN Null
    ELSE authHeader[2]

\* JavaScript truthiness of a string-or-null value
Truthy(s) == s # Null /\ s # ""

\* faulty variant: every request shares one bucket
keyGeneratorAnonymous(authHeader) == "anonymous"

keyGenerator(authHeader) ==
    IF Truthy(extractUserId(authHeader)) THEN extractUserId(authHeader)
    ELSE "anonymous"

----------------------------------------------------------------------------
(* The two limiters of app.ts and the MemoryStore each of them owns *)

Limiters == {"weekdayLimit", "weekendLimit"}

max(L) == IF L = "weekdayLimit" THEN WeekdayMax ELSE WeekendMax

\* faulty variant: weekdayLimit counts on every day of the week
skipWeekdayNever(L, day) ==
    IF L = "weekdayLimit" THEN FALSE
    ELSE day # 0 /\ day # 6

skip(L, day) ==
    IF L = "weekdayLimit" THEN day = 0 \/ day = 6
    ELSE day # 0 /\ day # 6

\* faulty variant: each limiter reports the other one's cap
messageSwapped(L) ==
    IF L = "weekdayLimit"
    THEN "Daily request limit exceeded (200 requests per weekend day)"
    ELSE "Daily request limit exceeded (100 requests per workday)"

\* the 429 body of each limiter, app.ts lines 23 and 40
message(L) ==
    IF L = "weekdayLimit"
    THEN "Daily request limit exceeded (100 requests per workday)"
    ELSE "Daily request limit exceeded (200 requests per weekend day)"

\* A key the store has never seen behaves like a client whose window is over.
NoClient == [totalHits |-> 0, resetTime |-> 0]

\* faulty variant: a new window keeps the old count
resetClientKeepsHits(client, t) == [client EXCEPT !.resetTime = t + windowMs]

resetClient(client, t) == [totalHits |-> 0, resetTime |-> t + windowMs]

\* faulty variant: the increment is lost
incrementLost(client, t) ==
    IF client.resetTime <= t THEN resetClient(client, t) ELSE client

\* MemoryStore.increment: one synchronous read-modify-write
increment(client, t) ==
    LET c == IF client.resetTime <= t THEN resetClient(client, t) ELSE client
    IN  [c EXCEPT !.totalHits = @ + 1]

\* faulty variant: the request that reaches the cap is already denied
exceededAtLimit(totalHits, limit) == totalHits >= limit

\* the limiter's verdict on the hit count increment() returned
exceeded(totalHits, limit) == totalHits > limit

----------------------------------------------------------------------------
(* lib/cache: one LRUCache slot, ttl 5 minutes, updateAgeOnGet: true,       *)
(* allowStale: false.                                                      *)

Currencies == {"USD", "EUR", "BTC", "ETH", "XYZ"}

NoRates == [c \in {} |-> ""]

NoEntry == [has |-> FALSE, value |-> NoRates, start |-> 0, stored |-> 0, seq |-> 0]

\* an entry is stale once its age exceeds its ttl
isStale(entry, t) == t - entry.start > EXCHANGE_RATES_CACHE_TTL

\* the value cache.get returns: the entry's value, or undefined (a miss)
cacheHit(entry, t) == entry.has /\ ~isStale(entry, t)

\* updateAgeOnGet: a get that finds the entry restarts its age
updateAgeOnGet(entry, t) == [entry EXCEPT !.start = t]

\* the cache after cache.get: a stale entry is deleted, a fresh one is aged anew
cacheAfterGet(entry, t) ==
    IF ~entry.has THEN entry
    ELSE IF isStale(entry, t) THEN NoEntry
    ELSE updateAgeOnGet(entry, t)

\* cache.set(key, value, {ttl}); stored and seq remember when the value was
\* set and which fetch it came from
cacheSet(value, t, seq) ==
    [has |-> TRUE, value |-> value, start |-> t, stored |-> t, seq |-> seq]

----------------------------------------------------------------------------
(* lib/validation: schemas.auth, schemas.conversion and validate()         *)

Missing == "<missing>"

\* String.prototype.toUpperCase on the codes the model sends
toUpperCase(str) ==
    CASE str = "usd" -> "USD"
      [] str = "eur" -> "EUR"
      [] str = "btc" -> "BTC"
      [] str = "eth" -> "ETH"
      [] str = "xyz" -> "XYZ"
      [] OTHER -> str

\* A JavaScript number is kept exact: the fraction <<n, d>> in lowest terms
\* with d > 0, or Infinity, or NaN
NaN == <<0, 0>>
Infinity == <<1, 0>>
num(n) == <<n, 1>>

\* Number(value) of a query value (z.coerce.number); a missing value is
\* Number(undefined)
Number(raw) ==
    CASE raw = "3" -> num(3)
      [] raw = "100" -> num(100)
      [] raw = "0" -> num(0)
      [] raw = "-5" -> num(0 - 5)
      [] raw = "Infinity" -> Infinity
      [] OTHER -> NaN

isFiniteNumber(x) == x[2] # 0

isPositive(x) == x[1] > 0

\* schemas.auth: userId is a string of at least one character
authValid(userId) == userId # Null /\ userId # ""

currencyValid(raw) == raw # Missing /\ includes(SUPPORTED_CURRENCIES, toUpperCase(raw))

\* faulty variant: zero is let through
amountValidNonNegative(raw) == Number(raw)[1] >= 0 /\ isFiniteNumber(Number(raw))

\* amount: z.coerce.number().positive().finite()
amountValid(raw) == isPositive(Number(raw)) /\ isFiniteNumber(Number(raw))

\* schemas.conversion.parse succeeds
conversionValid(query) ==
    currencyValid(query.from) /\ currencyValid(query.to) /\ amountValid(query.amount)

\* the transformed query validate() puts back on the request
conversionParsed(query) ==
    [from |-> toUpperCase(query.from), to |-> toUpperCase(query.to),
     amount |-> Number(query.amount)]

----------------------------------------------------------------------------
(* ConversionService *)

\* JavaScript truthiness of rates[currency]: present and not the empty string
hasRate(rates, c) == c \in DOMAIN rates /\ rates[c] # ""

\* faulty variant: the upstream's rates are passed on unfiltered
filterRatesNone(rates) ==
    [c \in {d \in DOMAIN rates : rates[d] # ""} |-> rates[c]]

\* getExchangeRates, lines 82-91: keep the supported currencies the response has
filterRates(rates) ==
    [c \in {d \in DOMAIN rates : includes(SUPPORTED_CURRENCIES, d) /\ rates[d] # ""}
        |-> rates[c]]

\* parseFloat of the rate strings the model's upstream sends
parseFloat(str) ==
    CASE str = "0" -> num(0)
      [] str = "1" -> num(1)
      [] str = "2" -> num(2)
      [] str = "4" -> num(4)
      [] OTHER -> NaN

isNaN(x) == x = NaN

RECURSIVE gcd(_, _)
gcd(a, b) == IF b = 0 THEN a ELSE gcd(b, a % b)

abs(a) == IF a < 0 THEN 0 - a ELSE a

\* the fraction n / d with d > 0, in lowest terms
frac(n, d) == LET g == gcd(abs(n), d) IN <<n \div g, d \div g>>

\* x * y and x / y of finite x, y >= 0 (floating point, kept exact): x / 0 is
\* Infinity for x > 0 and NaN for x = 0
times(x, y) == frac(x[1] * y[1], x[2] * y[2])
divide(x, y) ==
    IF y[1] = 0 THEN (IF x[1] = 0 THEN NaN ELSE Infinity)
    ELSE frac(x[1] * y[2], x[2] * y[1])

\* faulty variant: the ratio is taken the wrong way round
computeResultInverted(amount, fromRate, toRate) ==
    divide(times(amount, fromRate), toRate)

\* convertCurrency, lines 147-148
computeResult(amount, fromRate, toRate) == divide(times(amount, toRate), fromRate)
computeRate(fromRate, toRate) == divide(toRate, fromRate)

----------------------------------------------------------------------------
(* The upstream exchange-rate API: what axios.get may resolve or reject to *)

RatesA == [c \in {"USD", "EUR", "BTC", "ETH", "XYZ"} |->
              CASE c = "USD" -> "1" [] c = "EUR" -> "2" [] c = "BTC" -> "4"
                [] c = "ETH" -> "1" [] OTHER -> "2"]
RatesB == [c \in {"USD", "EUR"} |-> IF c = "USD" THEN "2" ELSE "1"]
RatesC == [c \in {"USD", "EUR", "BTC"} |->
              CASE c = "USD" -> "0" [] c = "EUR" -> "abc" [] OTHER -> ""]

\* kind "reject": network error or non-2xx status; "noRates": a body without
\* data or data without rates; "scalarRates": rates is a string or a number,
\* not an object; "rates": rates is the object given
Responses ==
    {[kind |-> k, rates |-> NoRates] : k \in {"reject", "noRates", "scalarRates"}}
    \cup {[kind |-> "rates", rates |-> m] : m \in {RatesA, RatesB, RatesC, NoRates}}

\* axios rejects, or response.data.data.rates throws (TypeError), or the
\* filter loop reads a property of undefined
fetchThrows(resp) == resp.kind \in {"reject", "noRates"}

\* rates[currency] for every currency: undefined on a string or a number
ratesOf(resp) == IF resp.kind = "rates" THEN resp.rates ELSE NoRates

----------------------------------------------------------------------------
(* Requests.  A slot holds one request from its arrival to its response;   *)
(* route "direct" is a call of conversionService.convertCurrency made      *)
(* without the HTTP pipeline (as the service's own callers and tests do).  *)

Reqs == {1, 2}
Keys == {"u1", "anonymous"}

NoQuery == [from |-> Missing, to |-> Missing, amount |-> Missing]
NoArgs == [from |-> "", to |-> "", amount |-> NaN, userId |-> ""]
NoRecord == [userId |-> "", fromCurrency |-> "", toCurrency |-> "",
             amount |-> NaN, result |-> NaN, rate |-> NaN]
NoResult == [from |-> "", to |-> "", amount |-> NaN, result |-> NaN, rate |-> NaN]

\* an error object: statusCode 0 stands for a statusCode that is not set
NoStatusCode == 0
NoError == [message |-> "", statusCode |-> NoStatusCode]

IdleReq ==
    [pc |-> "idle", header |-> NoHeader, route |-> "none", query |-> NoQuery,
     lim |-> "weekdayLimit", totalHits |-> 0, counted |-> {}, days |-> {},
     args |-> NoArgs, gets |-> 0, hit |-> FALSE, gotAt |-> 0, hitStored |-> 0, gotSeq |-> 0,
     fetchSeq |-> 0, respKind |-> "none", sets |-> 0, rates |-> NoRates,
     creates |-> 0, record |-> NoRecord, result |-> NoResult,
     status |-> 0, error |-> "", errorLogs |-> 0, key |-> "",
     userId |-> Null, authNext |-> 0, validNext |-> 0, parsed |-> NoQuery,
     raw |-> NoRates, persist |-> "none",
     err |-> NoError, env |-> "", bodyStatus |-> 0,
     renewed |-> {}, before |-> [L \in Limiters |-> NoClient]]

\* the request is over: an HTTP response was sent, or the direct call
\* returned (status 0, error "") or threw (status 0, error set)
Done(rec) == rec.pc = "done"

respond(rec, status, error) ==
    [rec EXCEPT !.pc = "done", !.status = status, !.error = error]

\* a response stays on record until the next request arrives: slot r takes
\* the new request, the other slots whose request is over are emptied
forget(r) ==
    [q \in Reqs |-> IF q # r /\ req[q].pc = "done" THEN IdleReq ELSE req[q]]

----------------------------------------------------------------------------
(* History: what an observer of the requests has counted *)

\* arrivals[k]: the requests of key k since its first one, while they all lie
\* within 24 hours of the first (n = -1 afterwards): when the first arrived, how
\* many arrived, the kinds of day (weekend or not) the limiters read for them
NoArrivals == [first |-> 0, n |-> 0, kinds |-> {}]
Expired == [first |-> 0, n |-> 0 - 1, kinds |-> {}]
\* admitted[k]: how many requests of k passed both limiters on calendar day `day`
NoAdmitted == [day |-> 0, n |-> 0]

\* a request of key k arrives (before any limiter has seen it)
noteArrival(h, k, t) ==
    LET a == h.arrivals[k]
        b == IF a.n = 0 THEN [first |-> t, n |-> 1, kinds |-> {}]
             ELSE IF a.n < 0 \/ t >= a.first + windowMs THEN Expired
             ELSE [a EXCEPT !.n = @ + 1]
    IN  [h EXCEPT !.arrivals[k] = b, !.last[k] = t]

\* a limiter's skip() read the day `day` for a request of key k
noteDay(h, k, day) ==
    IF h.arrivals[k].n < 0 THEN h
    ELSE [h EXCEPT !.arrivals[k].kinds = @ \cup {isWeekend(day)}]

\* a request of key k passed both limiters at time t
noteAdmitted(h, k, t) ==
    LET a == h.admitted[k]
    IN  [h EXCEPT !.admitted[k] =
            IF a.n > 0 /\ a.day = dayIndex(t) THEN [a EXCEPT !.n = @ + 1]
            ELSE [day |-> dayIndex(t), n |-> 1]]

\* the client of key k in limiter L has used up its cap
exhausted(L, k) == store[L][k].resetTime > 0 /\ store[L][k].totalHits >= max(L)

\* an arrival of key k now is its first one at or after the end of a window
\* in which k used up its cap
firstAfterExhaustion(k) ==
    \E L \in Limiters :
        /\ exhausted(L, k)
        /\ now >= store[L][k].resetTime
        /\ hist.last[k] < store[L][k].resetTime

\* what the observer writes down for the step that slot r takes: the arrival
\* (with its rank among the arrivals of its key), the day a limiter reads, the
\* passage of the last limiter
observe(r) ==
    LET a == req[r]
        b == req'[r]
        k == keyGenerator(b.header)
    IN  IF a.pc \in {"idle", "done"} /\ b.pc = "limit"
        THEN LET h == noteArrival(hist, k, now)
             IN  [h EXCEPT !.seqNo[r] = h.arrivals[k].n,
                           !.due[r] = firstAfterExhaustion(k)]
        ELSE LET h == IF a.pc = "limit" THEN noteDay(hist, k, getDay(now))
                      ELSE hist
             IN  IF a.pc \in {"limit", "decide"} /\ b.pc = "route"
                 THEN noteAdmitted(h, k, now)
                 ELSE h

Observed(r) == hist' = observe(r)

----------------------------------------------------------------------------
(* State after construction *)

Init ==
    /\ now = 0
    /\ bootDay \in 0..6
    /\ store = [L \in Limiters |-> [k \in Keys |-> NoClient]]
    /\ cache = NoEntry
    /\ fetches = 0
    /\ req = [r \in Reqs |-> IdleReq]
    /\ hist = [arrivals |-> [k \in Keys |-> NoArrivals],
               admitted |-> [k \in Keys |-> NoAdmitted],
               last |-> [k \in Keys |-> 0],
               seqNo |-> [r \in Reqs |-> 0],
               due |-> [r \in Reqs |-> FALSE]]

----------------------------------------------------------------------------
(* The clock advances by d minutes *)

Tick(d, horizon) ==
    /\ now + d <= horizon
    /\ now' = now + d
    /\ UNCHANGED <<bootDay, store, cache, fetches, req>>

----------------------------------------------------------------------------
(* app.ts: a request enters the middleware chain.  express.json() passes   *)
(* it on to weekdayLimit.                                                  *)

Arrive(r, header, route, query) ==
    /\ req[r].pc \in {"idle", "done"}
    /\ route \in {"health", "convert"}
    /\ req' = [forget(r) EXCEPT ![r] =
           [IdleReq EXCEPT !.pc = "limit", !.header = header,
                           !.route = route, !.query = query,
                           !.before = [L \in Limiters |->
                                          store[L][keyGenerator(header)]]]]
    /\ UNCHANGED <<now, bootDay, store, cache, fetches>>

\* the request leaves limiter L by next(): on to weekendLimit, or to the routes
passLimiter(rec, L) ==
    IF L = "weekdayLimit" THEN [rec EXCEPT !.pc = "limit", !.lim = "weekendLimit"]
    ELSE [rec EXCEPT !.pc = "route"]

\* rateLimit middleware up to the store's answer: skip(), keyGenerator(),
\* store.increment(key)
LimiterIncrement(r) ==
    /\ req[r].pc = "limit"
    /\ LET L == req[r].lim
           day == getDay(now)
           k == keyGenerator(req[r].header)
           rec == [req[r] EXCEPT !.days = @ \cup {day}]
       IN  IF skip(L, day)
           THEN /\ req' = [req EXCEPT ![r] = passLimiter(rec, L)]
                /\ store' = store
           ELSE /\ store' = [store EXCEPT ![L][k] = increment(@, now)]
                /\ req' = [req EXCEPT ![r] =
                       [rec EXCEPT !.pc = "decide",
                                   !.key = k,
                                   !.totalHits = store'[L][k].totalHits,
                                   !.counted = @ \cup {L},
                                   !.renewed = IF exhausted(L, k)
                                                  /\ now >= store[L][k].resetTime
                                               THEN @ \cup {L} ELSE @]]
    /\ UNCHANGED <<now, bootDay, cache, fetches>>

\* rateLimit middleware after the store answered: 429 with the limiter's
\* message, or next()
LimiterDecide(r) ==
    /\ req[r].pc = "decide"
    /\ req' = [req EXCEPT ![r] =
           IF exceeded(@.totalHits, max(@.lim))
           THEN respond(@, 429, message(@.lim))
           ELSE passLimiter(@, @.lim)]
    /\ UNCHANGED <<now, bootDay, store, cache, fetches>>

----------------------------------------------------------------------------
(* ConversionService.convertCurrency and getExchangeRates, and what the    *)
(* controller and the error handler answer                                 *)

\* faulty variant: only the source currency is checked
supportedFromOnly(from, to) == includes(SUPPORTED_CURRENCIES, from)

\* convertCurrency, lines 126-129
supported(from, to) ==
    includes(SUPPORTED_CURRENCIES, from) /\ includes(SUPPORTED_CURRENCIES, to)

\* faulty variant: the error's statusCode is ignored
errorHandlerAlways500(err) ==
    [status |-> 500,
     body |-> [message |-> IF err.message # "" THEN err.message
                           ELSE "Internal Server Error",
               status |-> 500]]

\* errorHandler: the status and the JSON body {error: {message, status}} it
\* sends for err
errorHandler(err) ==
    LET statusCode == IF err.statusCode # NoStatusCode THEN err.statusCode ELSE 500
    IN  [status |-> statusCode,
         body |-> [message |-> IF err.message # "" THEN err.message
                               ELSE "Internal Server Error",
                   status |-> statusCode]]

\* errorHandler called for the request rec with err: it logs, then responds
handled(rec, err) ==
    LET out == errorHandler(err)
    IN  respond([rec EXCEPT !.errorLogs = @ + 1, !.err = err,
                            !.bodyStatus = out.body.status],
                out.status, out.body.message)

\* faulty variant: the controller answers 400 to a missing rate as well
failRateAs400(rec, msg) ==
    LET logged == [rec EXCEPT !.errorLogs = @ + 1]
    IN  IF rec.route = "direct" THEN respond(logged, 0, msg)
        ELSE IF msg \in {"Invalid currency code", "Invalid exchange rate",
                         "Exchange rate not available for the selected currency"}
        THEN respond(logged, 400, msg)
        ELSE respond([logged EXCEPT !.errorLogs = @ + 1], 500, msg)

\* faulty variant: a missing rate is reported as an unsupported currency
failConflated(rec, msg) ==
    LET m == IF msg = "Exchange rate not available for the selected currency"
             THEN "Invalid currency code" ELSE msg
        logged == [rec EXCEPT !.errorLogs = @ + 1]
    IN  IF rec.route = "direct" THEN respond(logged, 0, m)
        ELSE IF m \in {"Invalid currency code", "Invalid exchange rate"}
        THEN respond(logged, 400, m)
        ELSE respond([logged EXCEPT !.errorLogs = @ + 1], 500, m)

\* convertCurrency throws msg: its catch logs and rethrows; the controller
\* answers 400 to two messages and hands the rest to errorHandler, which logs
\* and answers 500; a direct caller gets the exception
fail(rec, msg) ==
    LET logged == [rec EXCEPT !.errorLogs = @ + 1]
    IN  IF rec.route = "direct" THEN respond(logged, 0, msg)
        ELSE IF msg \in {"Invalid currency code", "Invalid exchange rate"}
        THEN respond(logged, 400, msg)
        ELSE handled(logged, [message |-> msg, statusCode |-> NoStatusCode])

\* faulty variant: the two currency codes are stored the wrong way round
conversionRecordSwapped(a, result, rate) ==
    [userId |-> a.userId, fromCurrency |-> a.to, toCurrency |-> a.from,
     amount |-> a.amount, result |-> result, rate |-> rate]

\* the data of prisma.conversion.create, lines 151-160
conversionRecord(a, result, rate) ==
    [userId |-> a.userId, fromCurrency |-> a.from, toCurrency |-> a.to,
     amount |-> a.amount, result |-> result, rate |-> rate]

\* the value convertCurrency returns, lines 166-172
conversionResult(a, result, rate) ==
    [from |-> a.from, to |-> a.to, amount |-> a.amount,
     result |-> result, rate |-> rate]

\* convertCurrency from the rates on, up to the call of
\* prisma.conversion.create
compute(rec, rates) ==
    LET a == rec.args
        got == [rec EXCEPT !.rates = rates]
    IN  IF ~hasRate(rates, a.from) \/ ~hasRate(rates, a.to)
        THEN fail(got, "Exchange rate not available for the selected currency")
        ELSE LET fromRate == parseFloat(rates[a.from])
                 toRate == parseFloat(rates[a.to])
             IN  IF isNaN(fromRate) \/ isNaN(toRate)
                 THEN fail(got, "Invalid exchange rate")
                 ELSE LET result == computeResult(a.amount, fromRate, toRate)
                          rate == computeRate(fromRate, toRate)
                      IN  [got EXCEPT
                             !.pc = "persist",
                             !.creates = @ + 1,
                             !.record = conversionRecord(a, result, rate),
                             !.result = conversionResult(a, result, rate)]

\* faulty variant: a call served from the cache fetches all the same
convertStartRefetch(rec) ==
    IF ~supported(rec.args.from, rec.args.to)
    THEN [rec |-> fail(rec, "Invalid currency code"), cache |-> cache,
          fetches |-> fetches]
    ELSE IF cacheHit(cache, now)
    THEN [rec |-> compute([rec EXCEPT !.gets = @ + 1, !.hit = TRUE,
                                      !.gotAt = now, !.hitStored = cache.stored,
                                      !.gotSeq = cache.seq,
                                      !.fetchSeq = fetches + 1],
                          cache.value),
          cache |-> cacheAfterGet(cache, now), fetches |-> fetches + 1]
    ELSE [rec |-> [rec EXCEPT !.gets = @ + 1, !.pc = "fetch",
                              !.fetchSeq = fetches + 1],
          cache |-> cacheAfterGet(cache, now), fetches |-> fetches + 1]

\* convertCurrency up to its first wait: the currency check, then
\* getExchangeRates' cache.get, then either the rest of the conversion (a
\* hit) or the upstream fetch (a miss)
convertStart(rec) ==
    IF ~supported(rec.args.from, rec.args.to)
    THEN [rec |-> fail(rec, "Invalid currency code"), cache |-> cache,
          fetches |-> fetches]
    ELSE IF cacheHit(cache, now)
    THEN [rec |-> compute([rec EXCEPT !.gets = @ + 1, !.hit = TRUE,
                                      !.gotAt = now, !.hitStored = cache.stored,
                                      !.gotSeq = cache.seq],
                          cache.value),
          cache |-> cacheAfterGet(cache, now), fetches |-> fetches]
    ELSE [rec |-> [rec EXCEPT !.gets = @ + 1, !.pc = "fetch",
                              !.fetchSeq = fetches + 1],
          cache |-> cacheAfterGet(cache, now), fetches |-> fetches + 1]

\* routes: /health queries the database; /api/convert runs validateAuth,
\* validate(schemas.conversion) and the controller
Route(r) ==
    /\ req[r].pc = "route"
    /\ fetches < MaxFetches
    /\ LET rec == req[r]
           userId == extractUserId(rec.header)
       IN  IF rec.route = "health"
           THEN /\ req' = [req EXCEPT ![r].pc = "health"]
                /\ UNCHANGED <<cache, fetches>>
           ELSE IF ~Truthy(userId)
           THEN /\ req' = [req EXCEPT ![r] =
                       respond(rec, 401, "Unauthorized - User ID required")]
                /\ UNCHANGED <<cache, fetches>>
           ELSE IF ~authValid(userId)
           THEN /\ req' = [req EXCEPT ![r] =
                       respond([rec EXCEPT !.errorLogs = @ + 1], 401, "Unauthorized")]
                /\ UNCHANGED <<cache, fetches>>
           ELSE IF ~conversionValid(rec.query)
           THEN /\ req' = [req EXCEPT ![r] =
                       respond([rec EXCEPT !.userId = userId, !.authNext = 1,
                                           !.errorLogs = @ + 1],
                               400, "Validation error")]
                /\ UNCHANGED <<cache, fetches>>
           ELSE LET q == conversionParsed(rec.query)
                    out == convertStart(
                              [rec EXCEPT !.userId = userId, !.authNext = 1,
                                          !.parsed = q, !.validNext = 1,
                                          !.args =
                                  [from |-> q.from, to |-> q.to,
                                   amount |-> q.amount, userId |-> userId]])
                IN  /\ req' = [req EXCEPT ![r] = out.rec]
                    /\ cache' = out.cache
                    /\ fetches' = out.fetches
    /\ UNCHANGED <<now, bootDay, store>>

\* conversionService.convertCurrency(from, to, amount, userId) called directly
DirectCall(r, from, to, amount, userId) ==
    /\ req[r].pc \in {"idle", "done"}
    /\ fetches < MaxFetches
    /\ LET out == convertStart(
                     [IdleReq EXCEPT !.route = "direct",
                         !.args = [from |-> from, to |-> to, amount |-> amount,
                                   userId |-> userId]])
       IN  /\ req' = [forget(r) EXCEPT ![r] = out.rec]
           /\ cache' = out.cache
           /\ fetches' = out.fetches
    /\ UNCHANGED <<now, bootDay, store>>

\* faulty variant: a failed fetch leaves an empty rate set in the cache
FetchReturnCachesFailure(r, resp) ==
    /\ req[r].pc = "fetch"
    /\ LET rec == [req[r] EXCEPT !.respKind = resp.kind, !.raw = ratesOf(resp)]
           filteredRates == filterRates(ratesOf(resp))
       IN  /\ cache' = cacheSet(filteredRates, now, rec.fetchSeq)
           /\ req' = [req EXCEPT ![r] =
                  IF fetchThrows(resp)
                  THEN fail([rec EXCEPT !.errorLogs = @ + 1],
                            "Failed to fetch exchange rates")
                  ELSE compute([rec EXCEPT !.sets = @ + 1, !.gotAt = now,
                                           !.gotSeq = rec.fetchSeq],
                               filteredRates)]
    /\ UNCHANGED <<now, bootDay, store, fetches>>

\* axios.get settles with resp: getExchangeRates filters and caches the
\* rates, or its catch logs and throws 'Failed to fetch exchange rates'
FetchReturn(r, resp) ==
    /\ req[r].pc = "fetch"
    /\ LET rec == [req[r] EXCEPT !.respKind = resp.kind, !.raw = ratesOf(resp)]
       IN  IF fetchThrows(resp)
           THEN /\ req' = [req EXCEPT ![r] =
                       fail([rec EXCEPT !.errorLogs = @ + 1],
                            "Failed to fetch exchange rates")]
                /\ cache' = cache
           ELSE LET filteredRates == filterRates(ratesOf(resp))
                IN  /\ cache' = cacheSet(filteredRates, now, rec.fetchSeq)
                    /\ req' = [req EXCEPT ![r] =
                           compute([rec EXCEPT !.sets = @ + 1, !.gotAt = now,
                                               !.gotSeq = rec.fetchSeq],
                                   filteredRates)]
    /\ UNCHANGED <<now, bootDay, store, fetches>>

\* faulty variant: a database error is swallowed and the result returned
PersistReturnSwallow(r, ok) ==
    /\ req[r].pc = "persist"
    /\ req' = [req EXCEPT ![r] =
           respond([@ EXCEPT !.persist = IF ok THEN "ok" ELSE "failed"],
                   IF @.route = "direct" THEN 0 ELSE 200, "")]
    /\ UNCHANGED <<now, bootDay, store, cache, fetches>>

\* prisma.conversion.create settles: the result is returned (200), or the
\* database error is thrown on
PersistReturn(r, ok) ==
    /\ req[r].pc = "persist"
    /\ req' = [req EXCEPT ![r] =
           IF ok THEN respond([@ EXCEPT !.persist = "ok"],
                              IF @.route = "direct" THEN 0 ELSE 200, "")
           ELSE fail([@ EXCEPT !.persist = "failed"], "DB error")]
    /\ UNCHANGED <<now, bootDay, store, cache, fetches>>

\* errorHandler(err, req, res, next) called on its own, as its tests do, in a
\* process whose NODE_ENV is env
HandlerCall(r, err, env) ==
    /\ req[r].pc \in {"idle", "done"}
    /\ req' = [req EXCEPT ![r] =
           handled([IdleReq EXCEPT !.route = "errorHandler", !.env = env], err)]
    /\ UNCHANGED <<now, bootDay, store, cache, fetches>>

\* /health: prisma.$queryRaw settles
HealthReturn(r, ok) ==
    /\ req[r].pc = "health"
    /\ req' = [req EXCEPT ![r] =
           IF ok THEN respond(@, 200, "")
           ELSE respond([@ EXCEPT !.errorLogs = @ + 1], 500,
                        "Database connection error")]
    /\ UNCHANGED <<now, bootDay, store, cache, fetches>>

----------------------------------------------------------------------------
(* Quota runs: one request at a time, sent by u1 with a query the          *)
(* validator rejects; the clock moves in half days.                        *)

HalfDay == 12 * 60

BadQuery == [from |-> "xyz", to |-> "eur", amount |-> "3"]
GoodQuery == [from |-> "usd", to |-> "eur", amount |-> "3"]

QuotaInputs == {[header |-> <<"Bearer", "u1">>, query |-> BadQuery]}

\* the hits of key k that limiter L still counts at the present time
liveHits(L, k) ==
    IF store[L][k].resetTime <= now THEN 0 ELSE store[L][k].totalHits

\* the limiter that counts at the present time
limiterOfDay == IF isWeekend(getDay(now)) THEN "weekendLimit" ELSE "weekdayLimit"

QuotaArrive(r, in) ==
    /\ liveHits(limiterOfDay, keyGenerator(in.header)) < max(limiterOfDay) + MaxOver
    /\ Arrive(r, in.header, "convert", in.query)

\* a request passes the middleware chain in far less than half a day
QuotaTick ==
    /\ \A r \in Reqs : req[r].pc \in {"idle", "done"}
    /\ Tick(HalfDay, MaxHalfDays * HalfDay)

NextQuota ==
    \/ \E in \in QuotaInputs : QuotaArrive(1, in) /\ Observed(1)
    \/ LimiterIncrement(1) /\ Observed(1)
    \/ LimiterDecide(1) /\ Observed(1)
    \/ Route(1) /\ UNCHANGED hist
    \/ QuotaTick /\ UNCHANGED hist

SpecQuota == Init /\ [][NextQuota]_vars

----------------------------------------------------------------------------
(* Quota claims (SpecQuota) *)

keyOf(r) == keyGenerator(req[r].header)

min(a, b) == IF a < b THEN a ELSE b

\* the requests of key k that limiter L let pass in its running window
admittedLive(L, k) == min(liveHits(L, k), max(L))

\* the request went through the limiters and got their verdict
Judged(r) == req[r].pc \in {"route", "done"} /\ req[r].route = "convert"
Denied(r) == req[r].pc = "done" /\ req[r].status = 429

C3_Boundary ==
    \A r \in Reqs :
        LET a == hist.arrivals[keyOf(r)]
        IN  (Judged(r) /\ a.n > 0 /\ a.n = hist.seqNo[r] /\ Cardinality(a.kinds) = 1)
            => (Denied(r) <=> hist.seqNo[r] > (IF a.kinds = {TRUE} THEN 200 ELSE 100))

\* C3 witness: the 201st request of a weekend window is denied
C3_Witness ==
    /\ Denied(1)
    /\ hist.seqNo[1] = 201
    /\ hist.arrivals["u1"].n = 201
    /\ hist.arrivals["u1"].kinds = {TRUE}

\* C4 as claimed: no identity is admitted more than 100 times within one
\* weekday calendar day, nor more than 200 times within one weekend calendar day.
C4_PerCalendarDay ==
    \A k \in Keys :
        hist.admitted[k].n <=
            (IF isWeekend(getDay(hist.admitted[k].day * MinutesPerDay)) THEN 200 ELSE 100)

\* C5 as claimed: the first request an identity makes at or after 24 hours from
\* the start of a window in which it used up its cap is admitted.
C5_FirstAfter ==
    \A r \in Reqs : (Judged(r) /\ hist.due[r]) => ~Denied(r)

\* C5 as amended: a limiter that counts a request at or after 24 hours from the
\* start of its own window, in which the identity used up that limiter's cap,
\* starts a new window with this request as its first (count 1, start = now)
\* and lets it pass.
C5_PerLimiter ==
    \A r \in Reqs :
        /\ (req[r].pc = "decide" /\ req[r].lim \in req[r].renewed)
              => /\ req[r].totalHits = 1
                 /\ store[req[r].lim][keyOf(r)] =
                       [totalHits |-> 1, resetTime |-> now + windowMs]
        /\ Denied(r) => req[r].lim \notin req[r].renewed

\* C5 witness: a request admitted by a limiter whose cap the identity had used
\* up in the window before
C5_Witness ==
    /\ req[1].pc = "route"
    /\ req[1].renewed # {}
    /\ req[1].before[limiterOfDay].totalHits > max(limiterOfDay)

\* the limiter that counted slot r's request last found it over its cap and
\* answered in place of the routes
OverQuota(r) ==
    /\ Done(req[r])
    /\ req[r].lim \in req[r].counted
    /\ req[r].totalHits > (IF req[r].lim = "weekdayLimit" THEN 100 ELSE 200)

\* C17: a request denied for quota is answered 429, and the message names the
\* cap of the day on which it was denied: 100 requests per workday from Monday
\* to Friday, 200 requests per weekend day on Saturday and Sunday.
C17_DenialMessage ==
    \A r \in Reqs :
        /\ OverQuota(r) =>
              /\ req[r].status = 429
              /\ req[r].authNext = 0
              /\ \E d \in 0..6 :
                    /\ req[r].days = {d}
                    /\ d \in 1..5 => req[r].error =
                           "Daily request limit exceeded (100 requests per workday)"
                    /\ d \in {0, 6} => req[r].error =
                           "Daily request limit exceeded (200 requests per weekend day)"
        /\ Done(req[r]) /\ req[r].status = 429 => OverQuota(r)

\* C17 witness: the 201st request of a Saturday is denied with the weekend cap
C17_Witness ==
    /\ OverQuota(1)
    /\ req[1].days = {6}
    /\ req[1].totalHits = 201
    /\ req[1].status = 429
    /\ req[1].error = "Daily request limit exceeded (200 requests per weekend day)"

----------------------------------------------------------------------------
(* Pipeline runs: two requests at a time through the whole middleware      *)
(* chain, the routes, the service and the error handler.                   *)

HttpInputs ==
    {[header |-> <<"Bearer", "u1">>, route |-> "convert", query |-> GoodQuery],
     [header |-> <<"Bearer", "u1">>, route |-> "convert", query |-> BadQuery],
     [header |-> NoHeader, route |-> "convert", query |-> GoodQuery],
     [header |-> <<"Bearer", "u1">>, route |-> "health", query |-> NoQuery]}

HttpArrive(r, in) ==
    /\ liveHits(limiterOfDay, keyGenerator(in.header)) < MaxHits
    /\ Arrive(r, in.header, in.route, in.query)

Next ==
    \/ \E r \in Reqs, in \in HttpInputs : HttpArrive(r, in) /\ UNCHANGED hist
    \/ \E r \in Reqs : LimiterIncrement(r) /\ UNCHANGED hist
    \/ \E r \in Reqs : LimiterDecide(r) /\ UNCHANGED hist
    \/ \E r \in Reqs : Route(r) /\ UNCHANGED hist
    \/ \E r \in Reqs, resp \in Responses : FetchReturn(r, resp) /\ UNCHANGED hist
    \/ \E r \in Reqs, ok \in BOOLEAN : PersistReturn(r, ok) /\ UNCHANGED hist
    \/ \E r \in Reqs, ok \in BOOLEAN : HealthReturn(r, ok) /\ UNCHANGED hist

Spec == Init /\ [][Next]_vars

----------------------------------------------------------------------------
(* Pipeline claims (Spec) *)

\* the limiter whose skip() is false on the day the request was seen
limiterOn(r) ==
    IF \E d \in req[r].days : isWeekend(d) THEN "weekendLimit" ELSE "weekdayLimit"

Rejected401(r) == Done(req[r]) /\ req[r].status = 401
Rejected400(r) ==
    Done(req[r]) /\ req[r].status = 400 /\ req[r].error = "Validation error"

----------------------------------------------------------------------------
(* Service runs: two calls of convertCurrency at a time, made directly;    *)
(* the process booted on a Monday and the clock moves in minutes.          *)

DirectInputs ==
    {[from |-> "USD", to |-> "EUR"], [from |-> "XYZ", to |-> "EUR"],
     [from |-> "USD", to |-> "XYZ"], [from |-> "USD", to |-> "BTC"]}

InitService == Init /\ bootDay = 1

NextService ==
    \/ \E r \in Reqs, in \in DirectInputs :
          DirectCall(r, in.from, in.to, num(3), "u1") /\ UNCHANGED hist
    \/ \E r \in Reqs, resp \in Responses : FetchReturn(r, resp) /\ UNCHANGED hist
    \/ \E r \in Reqs, ok \in BOOLEAN : PersistReturn(r, ok) /\ UNCHANGED hist
    \/ Tick(Step, MaxMinutes) /\ UNCHANGED hist

SpecService == InitService /\ [][NextService]_vars

----------------------------------------------------------------------------
(* Service claims (SpecService) *)

\* convertCurrency was called in slot r
Called(r) == req[r].args # NoArgs

\* getExchangeRates returned a rate set to the call in slot r
Got(r) == Called(r) /\ (req[r].hit \/ req[r].sets = 1)

\* C1 as claimed: a rate set stored at time s is served from the cache only
\* at times t < s + 5 minutes; reads never extend the expiry.
C1_AbsoluteExpiry ==
    \A r \in Reqs :
        req[r].hit => req[r].gotAt < req[r].hitStored + EXCHANGE_RATES_CACHE_TTL

\* C8 as claimed: two successful getExchangeRates calls made within the TTL
\* (there is no clear) return the identical rate mapping.
C8_Identical ==
    \A r1, r2 \in Reqs :
        (/\ Got(r1) /\ Got(r2)
         /\ req[r1].gotAt - req[r2].gotAt < EXCHANGE_RATES_CACHE_TTL
         /\ req[r2].gotAt - req[r1].gotAt < EXCHANGE_RATES_CACHE_TTL)
        => req[r1].rates = req[r2].rates

\* C8 as amended: two successful getExchangeRates calls with no cache store
\* between them (both were served the rate set of the same fetch) return the
\* identical mapping; a call that finds the rates in the cache issues no
\* upstream fetch and stores nothing, so that the cache keeps the mapping and
\* the store time it had until another fetch's response is stored.
C8_SameEntry ==
    /\ \A r1, r2 \in Reqs :
          (Got(r1) /\ Got(r2) /\ req[r1].gotSeq = req[r2].gotSeq)
          => req[r1].rates = req[r2].rates
    /\ \A r \in Reqs :
          req[r].hit => /\ req[r].fetchSeq = 0
                        /\ req[r].sets = 0
                        /\ req[r].respKind = "none"
                        /\ req[r].gotSeq <= fetches
    /\ \A r \in Reqs :
          (Got(r) /\ cache.has /\ cache.seq = req[r].gotSeq)
          => /\ cache.value = req[r].rates
             /\ cache.stored = (IF req[r].hit THEN req[r].hitStored ELSE req[r].gotAt)

\* C8 witness: a call that fetched is still waiting for the database when a
\* later call is served the same rate set from the cache
C8_Witness ==
    /\ req[1].pc = "persist" /\ req[1].sets = 1
    /\ req[2].hit /\ req[2].gotSeq = req[1].gotSeq
    /\ req[2].gotAt > req[1].gotAt
    /\ req[2].rates = RatesB

\* C9 as claimed: when the upstream fetch fails or its response is malformed,
\* the call fails with 'Failed to fetch exchange rates', nothing is stored in
\* the cache and the conversion makes no persistence call.
C9_FailedFetch ==
    \A r \in Reqs :
        req[r].respKind \in {"reject", "noRates", "scalarRates"}
        => /\ Done(req[r])
           /\ req[r].error = "Failed to fetch exchange rates"
           /\ req[r].sets = 0
           /\ req[r].creates = 0

\* C10: convertCurrency with a from or a to outside the supported list fails
\* with 'Invalid currency code' before any cache read or upstream fetch, and
\* makes no persistence call.
C10_Unsupported ==
    \A r \in Reqs :
        (/\ Called(r)
         /\ \/ ~includes(SUPPORTED_CURRENCIES, req[r].args.from)
            \/ ~includes(SUPPORTED_CURRENCIES, req[r].args.to))
        => /\ Done(req[r])
           /\ req[r].error = "Invalid currency code"
           /\ req[r].gets = 0
           /\ req[r].fetchSeq = 0
           /\ req[r].sets = 0
           /\ req[r].creates = 0

\* C10 witness: a call with an unsupported target currency has failed while
\* the cache holds rates and another call is waiting for the upstream
C10_Witness ==
    /\ Done(req[1]) /\ req[1].args.from = "USD" /\ req[1].args.to = "XYZ"
    /\ req[1].error = "Invalid currency code"
    /\ cache.has
    /\ req[2].pc = "fetch"

----------------------------------------------------------------------------
(* Concurrent runs: two requests of u1 at a time, interleaved at every     *)
(* await of the middleware chain, within one window.                       *)

ConcArrive(r, in) ==
    /\ r = 1 \/ liveHits(limiterOfDay, keyGenerator(in.header))
                   >= max(limiterOfDay) - ConcMargin
    /\ QuotaArrive(r, in)

NextConc ==
    \/ \E r \in Reqs, in \in QuotaInputs : ConcArrive(r, in) /\ Observed(r)
    \/ \E r \in Reqs : LimiterIncrement(r) /\ Observed(r)
    \/ \E r \in Reqs : LimiterDecide(r) /\ Observed(r)
    \/ \E r \in Reqs : Route(r) /\ UNCHANGED hist

SpecConc == Init /\ [][NextConc]_vars

----------------------------------------------------------------------------
(* Concurrency claims (SpecConc) *)

\* the request in slot r arrived when the count of the day's limiter stood at n
ArrivedAt(r, n) ==
    /\ Judged(r)
    /\ req[r].before[limiterOfDay].resetTime > 0
    /\ req[r].before[limiterOfDay].totalHits = n

\* C7: under any interleaving of the requests of one identity, no two requests
\* are answered the same count by a limiter, the requests admitted in a window
\* never outnumber the cap, and of two requests that both arrive at count
\* cap - 1 exactly one is admitted.
C7_Atomic ==
    /\ \A r1, r2 \in Reqs :
          (r1 # r2 /\ req[r1].counted \cap req[r2].counted # {}
           /\ req[r1].key = req[r2].key)
          => req[r1].totalHits # req[r2].totalHits
    /\ \A k \in Keys : hist.admitted[k].n <= max(limiterOfDay)
    /\ \A r1, r2 \in Reqs :
          (r1 # r2 /\ ArrivedAt(r1, max(limiterOfDay) - 1)
                   /\ ArrivedAt(r2, max(limiterOfDay) - 1))
          => (Denied(r1) <=> ~Denied(r2))

\* C7 witness: two requests arrived at count cap - 1; the one that arrived
\* second was counted first and admitted, the other one is denied
C7_Witness ==
    /\ ArrivedAt(1, max(limiterOfDay) - 1)
    /\ ArrivedAt(2, max(limiterOfDay) - 1)
    /\ req[2].totalHits = max(limiterOfDay) /\ ~Denied(2)
    /\ req[1].totalHits = max(limiterOfDay) + 1 /\ Denied(1)
    /\ hist.seqNo[1] < hist.seqNo[2]

----------------------------------------------------------------------------
(* Conversion runs: one call of convertCurrency at a time, made directly,  *)
(* over currencies, amounts, callers and upstream responses.               *)

Half == <<1, 2>>

ConvertInputs ==
    {[from |-> f, to |-> t, amount |-> a, userId |-> u] :
        f \in {"USD", "BTC", "XYZ"}, t \in {"EUR", "USD", "ETH", "XYZ"},
        a \in {num(3), num(100), Half}, u \in {"u1", "u2"}}

NextConvert ==
    \/ \E in \in ConvertInputs :
          DirectCall(1, in.from, in.to, in.amount, in.userId) /\ UNCHANGED hist
    \/ \E resp \in Responses : FetchReturn(1, resp) /\ UNCHANGED hist
    \/ \E ok \in BOOLEAN : PersistReturn(1, ok) /\ UNCHANGED hist

SpecConvert == InitService /\ [][NextConvert]_vars

----------------------------------------------------------------------------
(* Conversion claims (SpecConvert) *)

RateUnavailable == "Exchange rate not available for the selected currency"

\* C11: when both currencies are supported and the rate set obtained has no
\* entry for from or for to, convertCurrency fails with 'Exchange rate not
\* available for the selected currency' (not with 'Invalid currency code') and
\* makes no persistence call.
C11_RateMissing ==
    \A r \in Reqs :
        (/\ Got(r)
         /\ includes(SUPPORTED_CURRENCIES, req[r].args.from)
         /\ includes(SUPPORTED_CURRENCIES, req[r].args.to)
         /\ \/ req[r].args.from \notin DOMAIN req[r].rates
            \/ req[r].args.to \notin DOMAIN req[r].rates)
        => /\ Done(req[r])
           /\ req[r].error = RateUnavailable
           /\ req[r].error # "Invalid currency code"
           /\ req[r].creates = 0
           /\ req[r].persist = "none"

\* C11 witness: USD to ETH failed on a rate set that has USD and EUR only
C11_Witness ==
    /\ Done(req[1])
    /\ req[1].args.from = "USD" /\ req[1].args.to = "ETH"
    /\ req[1].rates = RatesB
    /\ req[1].error = RateUnavailable

\* convertCurrency returned its result to the caller of slot r
Succeeded(r) == Called(r) /\ Done(req[r]) /\ req[r].error = ""

\* x = y * z / w for fractions x, y, z and w > 0, by cross-multiplication
IsQuotient(x, y, z, w) ==
    /\ x[2] > 0
    /\ x[1] * (y[2] * z[2] * w[1]) = x[2] * (y[1] * z[1] * w[2])

\* C13: a successful convertCurrency returns result = amount * rate(to) /
\* rate(from) and rate = rate(to) / rate(from), where rate(c) is the number the
\* rate set's entry for c parses to, and persists the same two values: nothing
\* is rounded.  (A source rate of 0 gives IEEE's Infinity or NaN.)
C13_Arithmetic ==
    \A r \in Reqs :
        Succeeded(r) =>
            LET a == req[r].args
                f == parseFloat(req[r].rates[a.from])
                t == parseFloat(req[r].rates[a.to])
                out == req[r].result
            IN  /\ includes(SUPPORTED_CURRENCIES, a.from)
                /\ includes(SUPPORTED_CURRENCIES, a.to)
                /\ f # NaN /\ t # NaN
                /\ f[1] > 0 => /\ IsQuotient(out.result, a.amount, t, f)
                               /\ IsQuotient(out.rate, num(1), t, f)
                /\ f[1] = 0 => /\ out.result = (IF t[1] = 0 THEN NaN ELSE Infinity)
                               /\ out.rate = (IF t[1] = 0 THEN NaN ELSE Infinity)
                /\ req[r].record.result = out.result
                /\ req[r].record.rate = out.rate

\* C13 witness: 0.5 USD to EUR at rates USD 2, EUR 1 gives 0.25 at rate 0.5
C13_Witness ==
    /\ Succeeded(1)
    /\ req[1].args.amount = Half
    /\ req[1].args.from = "USD" /\ req[1].args.to = "EUR"
    /\ req[1].rates = RatesB
    /\ req[1].result.result = <<1, 4>>
    /\ req[1].result.rate = Half

\* C14: a successful convertCurrency has made exactly one call of
\* prisma.conversion.create, which settled before the result was returned, and
\* the record it passed holds the caller's userId and the from, to, amount,
\* result and rate of the returned result.
C14_PersistedOnce ==
    \A r \in Reqs :
        Succeeded(r) =>
            LET out == req[r].result
                data == req[r].record
            IN  /\ req[r].creates = 1
                /\ req[r].persist = "ok"
                /\ DOMAIN data = {"userId", "fromCurrency", "toCurrency",
                                  "amount", "result", "rate"}
                /\ data.userId = req[r].args.userId
                /\ data.fromCurrency = out.from /\ out.from = req[r].args.from
                /\ data.toCurrency = out.to /\ out.to = req[r].args.to
                /\ data.amount = out.amount /\ out.amount = req[r].args.amount
                /\ data.result = out.result
                /\ data.rate = out.rate

\* C14 witness: u2 converted 100 BTC to ETH and the record was stored
C14_Witness ==
    /\ Succeeded(1)
    /\ req[1].creates = 1
    /\ req[1].record.userId = "u2"
    /\ req[1].record.fromCurrency = "BTC" /\ req[1].record.toCurrency = "ETH"
    /\ req[1].record.amount = num(100)
    /\ req[1].record.result = num(25)

\* getExchangeRates of slot r fetched from the upstream and got a body with rates
Fetched(r) == Called(r) /\ req[r].sets = 1

\* every code of `rates` is supported and has the value `raw` has for it
Retained(rates, raw) ==
    \A c \in DOMAIN rates :
        /\ includes(SUPPORTED_CURRENCIES, c)
        /\ c \in DOMAIN raw
        /\ rates[c] = raw[c]

\* C16: the rate set getExchangeRates returns, and the one the cache holds,
\* has only supported codes, each with the value the upstream sent for it; a
\* supported currency the upstream left out is left out of the set, and a
\* response with a rates object never fails getExchangeRates.
C16_FilteredRates ==
    /\ cache.has => \A c \in DOMAIN cache.value : includes(SUPPORTED_CURRENCIES, c)
    /\ \A r \in Reqs :
        /\ Got(r) => \A c \in DOMAIN req[r].rates : includes(SUPPORTED_CURRENCIES, c)
        /\ Fetched(r) =>
              /\ Retained(req[r].rates, req[r].raw)
              /\ cache.has /\ cache.seq = req[r].fetchSeq => cache.value = req[r].rates
              /\ req[r].error # "Failed to fetch exchange rates"
        /\ Called(r) /\ req[r].hit /\ cache.has /\ cache.seq = req[r].gotSeq
              => req[r].rates = cache.value
        /\ Called(r) /\ req[r].respKind = "rates" => Fetched(r)

\* C16 witness: the upstream sent five codes, one of them unsupported; the
\* four supported ones were returned and cached
C16_Witness ==
    /\ Fetched(1)
    /\ req[1].raw = RatesA
    /\ "XYZ" \in DOMAIN req[1].raw
    /\ DOMAIN req[1].rates = {"USD", "EUR", "BTC", "ETH"}
    /\ cache.has /\ cache.value = req[1].rates

----------------------------------------------------------------------------
(* HTTP runs: one request at a time through the whole middleware chain,    *)
(* over Authorization headers and query strings, or one direct call of     *)
(* convertCurrency; u1 goes on sending a valid query until it is denied.   *)
(* The process booted on a Monday.                                         *)

Headers ==
    {NoHeader, <<"Bearer", "u1">>, <<"Bearer", "">>, <<"Bearer">>,
     <<"Basic", "u1">>, <<"bearer", "u1">>, <<"Bearer", "", "u1">>,
     <<"Bearer", "u1", "x">>}

Queries ==
    {GoodQuery, BadQuery,
     [from |-> "USD", to |-> "eth", amount |-> "100"],
     [from |-> "btc", to |-> "usd", amount |-> "3"],
     [from |-> "usd", to |-> "xyz", amount |-> "3"],
     [from |-> "usd", to |-> "eur", amount |-> "0"],
     [from |-> "usd", to |-> "eur", amount |-> "-5"],
     [from |-> "usd", to |-> "eur", amount |-> "Infinity"],
     [from |-> "usd", to |-> "eur", amount |-> "abc"],
     [from |-> Missing, to |-> "eur", amount |-> "3"],
     [from |-> "usd", to |-> Missing, amount |-> "3"],
     [from |-> "usd", to |-> "eur", amount |-> Missing]}

HttpCases ==
    {[header |-> h, route |-> "convert", query |-> GoodQuery] : h \in Headers}
    \cup {[header |-> <<"Bearer", "u1">>, route |-> "convert", query |-> q] :
              q \in Queries}
    \cup {[header |-> NoHeader, route |-> "health", query |-> NoQuery]}

UntilDenied == [header |-> <<"Bearer", "u1">>, query |-> GoodQuery]

NextHttp ==
    \/ \E in \in HttpCases : HttpArrive(1, in) /\ UNCHANGED hist
    \/ QuotaArrive(1, UntilDenied) /\ UNCHANGED hist
    \/ \E in \in DirectInputs :
          DirectCall(1, in.from, in.to, num(3), "u1") /\ UNCHANGED hist
    \/ LimiterIncrement(1) /\ UNCHANGED hist
    \/ LimiterDecide(1) /\ UNCHANGED hist
    \/ Route(1) /\ UNCHANGED hist
    \/ \E resp \in Responses : FetchReturn(1, resp) /\ UNCHANGED hist
    \/ \E ok \in BOOLEAN : PersistReturn(1, ok) /\ UNCHANGED hist
    \/ \E ok \in BOOLEAN : HealthReturn(1, ok) /\ UNCHANGED hist

SpecHttp == InitService /\ [][NextHttp]_vars

----------------------------------------------------------------------------
(* HTTP claims (SpecHttp) *)

\* the request in slot r came over HTTP and has its response
Answered(r) == Done(req[r]) /\ req[r].route = "convert"

\* C12 as claimed: every error kind reaches the client with its status:
\* unsupported currency 400, rate unavailable 400, rates unavailable 500,
\* persistence failed 500, quota exceeded 429.
C12_StatusMap ==
    \A r \in Reqs :
        Answered(r) =>
            /\ req[r].error = "Invalid currency code" => req[r].status = 400
            /\ req[r].error = RateUnavailable => req[r].status = 400
            /\ req[r].error = "Failed to fetch exchange rates" => req[r].status = 500
            /\ req[r].persist = "failed" => req[r].status = 500
            /\ req[r].error \in {message(L) : L \in Limiters} => req[r].status = 429

\* C12 as amended: unsupported currency codes are answered 400 (by the
\* validation middleware, as 'Validation error'), an unparsable rate 400, a
\* missing rate 500, a failed fetch 500, a failed persistence call 500 and a
\* quota denial 429.
C12_StatusOfError ==
    \A r \in Reqs :
        Answered(r) =>
            /\ (req[r].authNext = 1
                /\ \/ ~includes(SUPPORTED_CURRENCIES, toUpperCase(req[r].query.from))
                   \/ ~includes(SUPPORTED_CURRENCIES, toUpperCase(req[r].query.to)))
               => (req[r].status = 400 /\ req[r].error = "Validation error")
            /\ req[r].error = "Invalid currency code" => req[r].status = 400
            /\ req[r].error = "Invalid exchange rate" => req[r].status = 400
            /\ req[r].error = RateUnavailable => req[r].status = 500
            /\ req[r].error = "Failed to fetch exchange rates" => req[r].status = 500
            /\ req[r].persist = "failed" => req[r].status = 500
            /\ req[r].error \in {message(L) : L \in Limiters} => req[r].status = 429
            /\ req[r].status \in {200, 400, 401, 429, 500}

\* C12 witness: a request whose rate set lacks the target currency is
\* answered 500
C12_Witness ==
    /\ Answered(1)
    /\ req[1].error = RateUnavailable
    /\ req[1].status = 500
    /\ req[1].parsed.to = "ETH"
    /\ req[1].rates = RatesB

\* prisma.conversion.create of slot r's conversion rejected
PersistenceFailed(r) == req[r].persist = "failed"

\* C15: when prisma.conversion.create rejects, convertCurrency throws the
\* database's error to its caller and returns no result; over HTTP the answer
\* is a 500 whose message is that error, never a 200.
C15_PersistenceFailure ==
    \A r \in Reqs :
        PersistenceFailed(r) =>
            /\ Done(req[r])
            /\ req[r].creates = 1
            /\ req[r].error = "DB error"
            /\ ~Succeeded(r)
            /\ req[r].route = "direct" => req[r].status = 0
            /\ req[r].route = "convert" => req[r].status = 500

\* C15 witness: a validated HTTP conversion whose record the database refused
C15_Witness ==
    /\ PersistenceFailed(1)
    /\ req[1].route = "convert"
    /\ req[1].validNext = 1
    /\ req[1].status = 500
    /\ req[1].error = "DB error"

\* slot r's request went through validateAuth: it reached the route and was
\* not left waiting there
AuthRan(r) ==
    /\ req[r].route = "convert"
    /\ req[r].pc \in {"fetch", "persist", "done"}
    /\ req[r].status # 429

\* the Authorization header is 'Bearer ' followed by a non-empty token: the
\* part between 'Bearer ' and the next space, or the end, is not empty
BearerToken(header) ==
    /\ Len(header) >= 2
    /\ header[1] = "Bearer"
    /\ header[2] # ""

\* C19: validateAuth either sets req.userId to a non-empty identity and calls
\* next once without answering, or answers 401 and does not call next; it
\* calls next exactly when the header is 'Bearer ' followed by a non-empty
\* token, and the identity is that token.
C19_AuthOutcome ==
    \A r \in Reqs :
        /\ req[r].authNext \in {0, 1}
        /\ AuthRan(r) =>
              /\ req[r].authNext = 1 <=> req[r].status # 401
              /\ req[r].authNext = 1 <=> BearerToken(req[r].header)
              /\ req[r].authNext = 1 =>
                    /\ req[r].userId # Null /\ req[r].userId # ""
                    /\ req[r].userId = req[r].header[2]
              /\ req[r].authNext = 0 =>
                    /\ Done(req[r]) /\ req[r].status = 401
                    /\ req[r].userId = Null
                    /\ req[r].validNext = 0 /\ req[r].creates = 0

\* C19 witness: 'Bearer u1' went on as u1 and was answered by the controller
C19_Witness ==
    /\ AuthRan(1)
    /\ req[1].header = <<"Bearer", "u1">>
    /\ req[1].authNext = 1
    /\ req[1].userId = "u1"
    /\ Done(req[1]) /\ req[1].status = 200

\* slot r's request went through validate(schemas.conversion)
ValidatorRan(r) == AuthRan(r) /\ req[r].authNext = 1

\* the code, upper-cased, is one of the four supported ones
SupportedCode(raw) ==
    raw # Missing /\ toUpperCase(raw) \in {"USD", "EUR", "BTC", "ETH"}

\* the amount coerces to a positive finite number
PositiveFinite(raw) ==
    LET n == Number(raw) IN n # NaN /\ n # Infinity /\ n[2] > 0 /\ n[1] > 0

----------------------------------------------------------------------------
(* Progress runs: the calls of the conversion runs, where the database     *)
(* always settles a create (Prisma bounds its connection and pool waits)   *)
(* and the upstream is free never to answer: axios.get is called without   *)
(* a timeout (lines 77-80), and axios's default timeout is 0, no timeout.  *)

SpecLive ==
    /\ InitService
    /\ [][NextConvert]_vars
    /\ WF_vars(\E ok \in BOOLEAN : PersistReturn(1, ok) /\ UNCHANGED hist)

----------------------------------------------------------------------------
(* Progress claims (SpecLive) *)

\* slot r's call waits for axios.get
Fetching(r) == req[r].pc = "fetch"

\* C18 as claimed: every call of getExchangeRates and convertCurrency
\* completes, with a result or an error, also when the upstream never answers:
\* a call that waits for the upstream is over after a bounded wait.
C18_Completes == \A r \in Reqs : Fetching(r) ~> Done(req[r])

----------------------------------------------------------------------------
(* Retry claims (SpecConvert) *)

RatesUnavailable == "Failed to fetch exchange rates"

\* slot r's call ended because its upstream fetch failed
FetchFailed(r) == Done(req[r]) /\ req[r].error = RatesUnavailable

\* in this step a call of convertCurrency with supported currencies starts in slot r
Starts(r) ==
    /\ req[r].pc \in {"idle", "done"}
    /\ req'[r].gets = 1

\* C21: a failed fetch is never cached.  The step in which a fetch fails
\* leaves the cache as it was; the call that follows a call whose fetch
\* failed on a miss issues a new upstream fetch; and when the upstream then
\* answers with rates that call gets them and the cache holds them.
C21_RetryAfterFailure ==
    [][\A r \in Reqs :
          /\ (req[r].pc = "fetch" /\ req'[r].error = RatesUnavailable)
                => cache' = cache
          /\ (FetchFailed(r) /\ ~req[r].hit /\ ~cache.has /\ Starts(r))
                => /\ req'[r].pc = "fetch"
                   /\ fetches' = fetches + 1
                   /\ req'[r].fetchSeq = fetches'
          /\ (req[r].pc = "fetch" /\ req[r].fetchSeq > 1
               /\ req'[r].respKind = "rates")
                => /\ req'[r].error # RatesUnavailable
                   /\ req'[r].sets = 1
                   /\ cache'.has
                   /\ cache'.seq = req[r].fetchSeq
                   /\ cache'.value = req'[r].rates]_vars

\* C21 witness: the first fetch failed, the call after it fetched again (fetch
\* number 2), got the rates USD 2, EUR 1, filled the cache and succeeded
C21_Witness ==
    /\ Succeeded(1)
    /\ req[1].fetchSeq = 2
    /\ Fetched(1)
    /\ req[1].rates = RatesB
    /\ cache.has /\ cache.seq = 2 /\ cache.value = RatesB

----------------------------------------------------------------------------
(* Recovery runs: u1 retries conversions for ever, each call less than 5   *)
(* minutes after the one before; the upstream leaves BTC out of its first  *)
(* response and supplies every rate from the second one on.  These runs    *)
(* have no end, so their clock is kept relative to the present: when d     *)
(* minutes pass, every recorded time moves back by d.  A time more than    *)
(* the TTL back is kept as TTL + 1 back.                                   *)

LongAgo == 0 - (EXCHANGE_RATES_CACHE_TTL + 1)

back(t, d) == IF t - d < now + LongAgo THEN now + LongAgo ELSE t - d

\* d minutes pass, no longer than keeps u1's calls less than 5 minutes apart
Elapse(d) ==
    /\ now - back(hist.last["u1"], d) < EXCHANGE_RATES_CACHE_TTL
    /\ cache' = IF cache.has
                THEN [cache EXCEPT !.start = back(@, d), !.stored = back(@, d)]
                ELSE cache
    /\ hist' = [hist EXCEPT !.last["u1"] = back(@, d)]
    /\ UNCHANGED <<now, bootDay, store, fetches, req>>

RetryInputs ==
    {[from |-> "USD", to |-> "BTC"], [from |-> "USD", to |-> "EUR"],
     [from |-> "BTC", to |-> "USD"]}

RetryCall(in) ==
    /\ DirectCall(1, in.from, in.to, num(3), "u1")
    /\ hist' = [hist EXCEPT !.last["u1"] = now]

\* what the upstream answers to the fetch issued as number seq
UpstreamAt(seq) ==
    IF seq = 1
    THEN {[kind |-> "rates", rates |-> m] : m \in {RatesB, RatesC, NoRates}}
    ELSE {[kind |-> "rates", rates |-> RatesA]}

RetryFetchReturn ==
    \E resp \in UpstreamAt(req[1].fetchSeq) : FetchReturn(1, resp) /\ UNCHANGED hist

NextRetry ==
    \/ \E in \in RetryInputs : RetryCall(in)
    \/ RetryFetchReturn
    \/ \E ok \in BOOLEAN : PersistReturn(1, ok) /\ UNCHANGED hist
    \/ \E d \in 1..(EXCHANGE_RATES_CACHE_TTL - 1) : Elapse(d)

\* u1 goes on retrying the BTC conversion, the upstream and the database
\* answer, the database stores a record again and again, and time passes
SpecRetry ==
    /\ InitService
    /\ [][NextRetry]_vars
    /\ SF_vars(RetryCall([from |-> "USD", to |-> "BTC"]))
    /\ WF_vars(RetryFetchReturn)
    /\ SF_vars(PersistReturn(1, TRUE) /\ UNCHANGED hist)
    /\ SF_vars(\E d \in 1..(EXCHANGE_RATES_CACHE_TTL - 1) : Elapse(d))

----------------------------------------------------------------------------
(* Recovery claims (SpecRetry) *)

\* slot r's conversion to BTC failed for want of a rate
NoRateForBTC(r) ==
    /\ Done(req[r])
    /\ req[r].args.to = "BTC"
    /\ req[r].error = RateUnavailable

\* C22 as claimed: after a response that left out the rate of BTC, and with
\* the upstream supplying it from then on, a retried conversion to BTC
\* succeeds in the end although the calls come less than 5 minutes apart.
C22_RetrySucceeds ==
    \A r \in Reqs :
        NoRateForBTC(r) ~> (Succeeded(r) /\ req[r].args.to = "BTC")

----------------------------------------------------------------------------
(* Health runs: requests without an Authorization header, health checks    *)
(* and conversions, one at a time on a Monday.                             *)

HealthInputs ==
    {[header |-> NoHeader, route |-> "health", query |-> NoQuery],
     [header |-> NoHeader, route |-> "convert", query |-> GoodQuery]}

HealthArrive(r, in) ==
    /\ liveHits(limiterOfDay, keyGenerator(in.header)) < max(limiterOfDay) + MaxOver
    /\ Arrive(r, in.header, in.route, in.query)

NextHealth ==
    \/ \E in \in HealthInputs : HealthArrive(1, in) /\ UNCHANGED hist
    \/ LimiterIncrement(1) /\ UNCHANGED hist
    \/ LimiterDecide(1) /\ UNCHANGED hist
    \/ Route(1) /\ UNCHANGED hist
    \/ \E ok \in BOOLEAN : HealthReturn(1, ok) /\ UNCHANGED hist

SpecHealth == InitService /\ [][NextHealth]_vars

----------------------------------------------------------------------------
(* Health claims (SpecHealth) *)

\* slot r's request was GET /health and has been answered
HealthAnswered(r) == Done(req[r]) /\ req[r].route = "health"

\* C23 as claimed: GET /health is answered 200 unless the database query
\* failed (500 'Database connection error'), whatever requests came before.
C23_HealthOk ==
    \A r \in Reqs :
        HealthAnswered(r) =>
            \/ req[r].status = 200
            \/ req[r].status = 500 /\ req[r].error = "Database connection error"

----------------------------------------------------------------------------
(* Logging claims (SpecHttp) *)

\* C24 as claimed: a conversion that fails because the upstream fetch failed
\* has produced exactly one error-level log entry when it is answered.
C24_LoggedOnce ==
    \A r \in Reqs : FetchFailed(r) => req[r].errorLogs = 1

----------------------------------------------------------------------------
(* Error handler runs: errorHandler called for two errors side by side *)

Errors ==
    {[message |-> m, statusCode |-> c] :
        m \in {"", "Database credentials invalid", "Not found", "Standard error"},
        c \in {NoStatusCode, 400, 404, 500}}

Envs == {"production", "development"}

NextErrors ==
    \E r \in Reqs, err \in Errors, env \in Envs :
        HandlerCall(r, err, env) /\ UNCHANGED hist

SpecErrors == InitService /\ [][NextErrors]_vars

----------------------------------------------------------------------------
(* Error handler claims (SpecErrors) *)

\* errorHandler answered for slot r
Handled(r) == Done(req[r]) /\ req[r].route = "errorHandler"

\* C25 as claimed: in production the response does not depend on the error's
\* message: two errors answered with the same status get the same body.
C25_Sanitized ==
    \A r1, r2 \in Reqs :
        (/\ Handled(r1) /\ Handled(r2)
         /\ req[r1].env = "production" /\ req[r2].env = "production"
         /\ req[r1].status = req[r2].status)
        => /\ req[r1].error = req[r2].error
           /\ req[r1].bodyStatus = req[r2].bodyStatus

\* C26 as claimed: the status is the error's statusCode when one is set and 500
\* otherwise, the body's status is that status and the body's message is the
\* error's message.
C26_MessageVerbatim ==
    \A r \in Reqs :
        Handled(r) =>
            /\ req[r].status = (IF req[r].err.statusCode # 0
                                THEN req[r].err.statusCode ELSE 500)
            /\ req[r].bodyStatus = req[r].status
            /\ req[r].error = req[r].err.message

\* C26: errorHandler logs once and sends one response; the status is the
\* error's statusCode when one is set and 500 otherwise, the body's status is
\* that status, and the body's message is the error's message, or 'Internal
\* Server Error' when the error's message is empty.
C26_HandlerResponse ==
    \A r \in Reqs :
        Handled(r) =>
            /\ req[r].errorLogs = 1
            /\ req[r].err.statusCode \in {400, 404, 500} => req[r].status = req[r].err.statusCode
            /\ req[r].err.statusCode = 0 => req[r].status = 500
            /\ req[r].bodyStatus = req[r].status
            /\ req[r].err.message # "" => req[r].error = req[r].err.message
            /\ req[r].err.message = "" => req[r].error = "Internal Server Error"

\* C26 witness: 'Not found' with statusCode 404 is answered 404 with that
\* message, next to an error without message or statusCode
C26_Witness ==
    /\ Handled(1) /\ Handled(2)
    /\ req[1].err = [message |-> "Not found", statusCode |-> 404]
    /\ req[1].status = 404 /\ req[1].bodyStatus = 404 /\ req[1].error = "Not found"
    /\ req[2].err = NoError
    /\ req[2].status = 500 /\ req[2].error = "Internal Server Error"

----------------------------------------------------------------------------
(* Midnight runs: one request of u1 at a time; the clock moves from noon    *)
(* or midnight to the last minute of the half day while no request is in   *)
(* flight, and from that minute to the next one at any moment, also        *)
(* between the clock reads of the two limiters.                            *)

EveTick ==
    /\ now % HalfDay = 0
    /\ \A r \in Reqs : req[r].pc \in {"idle", "done"}
    /\ Tick(HalfDay - 1, MaxHalfDays * HalfDay)

MinuteTick ==
    /\ now % HalfDay = HalfDay - 1
    /\ Tick(1, MaxHalfDays * HalfDay)

MidnightArrive(r, in) ==
    /\ liveHits(limiterOfDay, keyGenerator(in.header)) < MaxHits
    /\ Arrive(r, in.header, "convert", in.query)

NextMidnight ==
    \/ \E in \in QuotaInputs : MidnightArrive(1, in) /\ UNCHANGED hist
    \/ LimiterIncrement(1) /\ UNCHANGED hist
    \/ LimiterDecide(1) /\ UNCHANGED hist
    \/ Route(1) /\ UNCHANGED hist
    \/ EveTick /\ UNCHANGED hist
    \/ MinuteTick /\ UNCHANGED hist

SpecMidnight == Init /\ [][NextMidnight]_vars

----------------------------------------------------------------------------
(* Midnight claims (SpecMidnight) *)

\* C27 as claimed: a request that has left the rate-limiting middleware was
\* counted by exactly one of the two limiters, also when the day changed
\* between their clock reads.
C27_CountedOnce ==
    \A r \in Reqs : Judged(r) => Cardinality(req[r].counted) = 1

----------------------------------------------------------------------------
(* Identity runs: on a Monday, one request at a time, sent without a       *)
(* token, with the token 'anonymous' or with the token 'u1'.  The history  *)
(* counts, for each token, the requests sent with it.                      *)

IdentityInputs ==
    {[header |-> NoHeader, query |-> BadQuery],
     [header |-> <<"Bearer", "anonymous">>, query |-> BadQuery],
     [header |-> <<"Bearer", "u1">>, query |-> BadQuery]}

\* the request carries a bearer token
Authenticated(header) == Truthy(extractUserId(header))

IdentityArrive(r, in) ==
    /\ liveHits(limiterOfDay, keyGenerator(in.header))
          < (IF in.header = <<"Bearer", "u1">> THEN MaxHits
             ELSE max(limiterOfDay) + MaxOver)
    /\ Arrive(r, in.header, "convert", in.query)
    /\ hist' = IF Authenticated(in.header)
               THEN noteArrival(hist, extractUserId(in.header), now)
               ELSE hist

NextIdentity ==
    \/ \E in \in IdentityInputs : IdentityArrive(1, in)
    \/ LimiterIncrement(1) /\ UNCHANGED hist
    \/ LimiterDecide(1) /\ UNCHANGED hist
    \/ Route(1) /\ UNCHANGED hist

SpecIdentity == InitService /\ [][NextIdentity]_vars

----------------------------------------------------------------------------
(* Identity claims (SpecIdentity) *)

\* C28 as claimed: the admission of a request that carries a token depends on
\* the requests sent with that token only: it is denied exactly when it is
\* beyond the 100th of them on this Monday, whatever was sent without a token
\* or with another one, also when the token is 'anonymous'.
C28_OwnQuota ==
    \A r \in Reqs :
        (Judged(r) /\ Authenticated(req[r].header))
        => (Denied(r) <=> hist.arrivals[extractUserId(req[r].header)].n > 100)

----------------------------------------------------------------------------
(* Cache order claims (SpecService) *)

\* C29 as claimed: the cache never goes back in time: an entry is never
\* replaced by the response of a fetch issued before the one it came from.
C29_NeverOlder ==
    [][(cache.has /\ cache'.has) => cache'.seq >= cache.seq]_vars

----------------------------------------------------------------------------
(* Finiteness claims (SpecConvert) *)

\* the rate set slot r's call got has a rate for its source currency, and the
\* rate parses to zero
ZeroSourceRate(r) ==
    /\ Got(r)
    /\ hasRate(req[r].rates, req[r].args.from)
    /\ parseFloat(req[r].rates[req[r].args.from]) = num(0)

\* C30 as claimed: a successful convertCurrency returned and persisted a
\* finite result and a finite rate, and a conversion whose source rate parses
\* to zero ends with an error and without a call of prisma.conversion.create.
C30_FiniteResult ==
    \A r \in Reqs :
        /\ Succeeded(r) =>
              /\ isFiniteNumber(req[r].result.result)
              /\ isFiniteNumber(req[r].result.rate)
              /\ isFiniteNumber(req[r].record.result)
              /\ isFiniteNumber(req[r].record.rate)
        /\ ZeroSourceRate(r) =>
              /\ Done(req[r])
              /\ req[r].error # ""
              /\ req[r].creates = 0

====
